---- MODULE Spec2Model ----
(***************************************************************************)
(* Model of remove_video_watermark.py: main drives                         *)
(*   extract_keyframes -> extract_frames -> extract_watermark_mask         *)
(*   -> remove_watermark                                                   *)
(* inside a temporary directory that is removed on every exit path.        *)
(*                                                                         *)
(* Text (ffprobe output, timestamps) is a sequence of one-character        *)
(* strings.  ffprobe prints six decimals, so a duration text denotes an     *)
(* integer number of microseconds; float() turns it into a binary64 float, *)
(* and the fallback grid is computed and formatted on such floats.         *)
(***************************************************************************)
EXTENDS Integers, Sequences, FiniteSets, TLC

VARIABLES
    video,          \* what the external tools report about the input file
    max_frames,     \* args.keyframes
    rng,            \* state of numpy's global random generator
    pc,             \* position of main
    keyframes_time, \* the list returned by extract_keyframes
    ncalls,         \* number of extract_keyframes calls made so far
    next_ts,        \* index of the next timestamp of the extract_frames loop
    counter,        \* extract_frames' counter
    tmpdir,         \* the temporary directory: outputs (output_<k>.png), mask
    calls,          \* side-effecting calls made so far (imsave, remove_watermark)
    error,          \* the exception that ended the last operation, "" if none
    exit_code       \* -1 while running, else the process's exit status

vars == <<video, max_frames, rng, pc, keyframes_time, ncalls, next_ts,
          counter, tmpdir, calls, error, exit_code>>

(***************************************************************************)
(* Bounds of the model.                                                    *)
(***************************************************************************)
MaxProbeLines == 3    \* pkt_dts_time lines in the keyframe probe's output
MaxK == 3             \* largest -k value tried (the smallest is -1)
MaxAmbientDraws == 1  \* draws other code may have taken from the generator
MaxCalls == 3         \* repeated extract_keyframes calls (SpecRepeat)

(***************************************************************************)
(* Text.                                                                   *)
(***************************************************************************)
Digit == <<"0", "1", "2", "3", "4", "5", "6", "7", "8", "9">>

Ord(c) ==
    CASE c = "-" -> 45 [] c = "." -> 46 [] c = "/" -> 47
      [] c = "0" -> 48 [] c = "1" -> 49 [] c = "2" -> 50 [] c = "3" -> 51
      [] c = "4" -> 52 [] c = "5" -> 53 [] c = "6" -> 54 [] c = "7" -> 55
      [] c = "8" -> 56 [] c = "9" -> 57 [] c = "A" -> 65 [] c = "N" -> 78

IsDigit(c) == Ord(c) >= 48 /\ Ord(c) <= 57

DigitValue(c) == Ord(c) - 48

\* Python's str < str: first differing character decides, a proper prefix is smaller.
RECURSIVE StrLess(_, _)
StrLess(a, b) ==
    IF b = <<>> THEN FALSE
    ELSE IF a = <<>> THEN TRUE
    ELSE IF Head(a) # Head(b) THEN Ord(Head(a)) < Ord(Head(b))
    ELSE StrLess(Tail(a), Tail(b))

\* "N/A" in line
ContainsNA(s) ==
    \E i \in 1..(Len(s) - 2) : s[i] = "N" /\ s[i + 1] = "/" /\ s[i + 2] = "A"

RECURSIVE NatDigits(_)
NatDigits(n) ==
    IF n < 10 THEN <<Digit[n + 1]>> ELSE NatDigits(n \div 10) \o <<Digit[(n % 10) + 1]>>

RECURSIVE PadLeft(_, _)
PadLeft(s, width) == IF Len(s) >= width THEN s ELSE PadLeft(<<"0">> \o s, width)

RECURSIVE DigitsValue(_)
DigitsValue(s) ==
    IF s = <<>> THEN 0 ELSE 10 * DigitsValue(SubSeq(s, 1, Len(s) - 1)) + DigitValue(s[Len(s)])

\* ffprobe's "%f" rendering of a time given in microseconds
Micros(us) ==
    (IF us < 0 THEN <<"-">> ELSE <<>>)
        \o NatDigits((IF us < 0 THEN -us ELSE us) \div 1000000)
        \o <<".">>
        \o PadLeft(NatDigits((IF us < 0 THEN -us ELSE us) % 1000000), 6)

NA == <<"N", "/", "A">>

(***************************************************************************)
(* Naturals of any size: the base-1000 digits, least significant first,    *)
(* no leading zero digit (zero is the empty sequence).  "Small" operands   *)
(* are below 2 * 10^6, so that every intermediate value fits a machine     *)
(* integer.                                                                *)
(***************************************************************************)
Abs(n) == IF n < 0 THEN -n ELSE n

RECURSIVE Big(_)
Big(n) == IF n = 0 THEN <<>> ELSE <<n % 1000>> \o Big(n \div 1000)

RECURSIVE BigMulCarry(_, _, _)
BigMulCarry(x, s, carry) ==
    IF x = <<>> THEN Big(carry)
    ELSE <<(Head(x) * s + carry) % 1000>> \o BigMulCarry(Tail(x), s, (Head(x) * s + carry) \div 1000)

BigMulSmall(x, s) == IF s = 0 THEN <<>> ELSE BigMulCarry(x, s, 0)

\* quotient and remainder of x by a small d > 0
RECURSIVE BigDivSmall(_, _)
BigDivSmall(x, d) ==
    IF x = <<>> THEN [quot |-> <<>>, rem |-> 0]
    ELSE LET hi == BigDivSmall(Tail(x), d)
             t  == hi.rem * 1000 + Head(x)
         IN  [quot |-> IF t \div d = 0 /\ hi.quot = <<>> THEN <<>> ELSE <<t \div d>> \o hi.quot,
              rem |-> t % d]

RECURSIVE BigLess(_, _)
BigLess(x, y) ==
    IF Len(x) # Len(y) THEN Len(x) < Len(y)
    ELSE IF x = <<>> THEN FALSE
    ELSE IF x[Len(x)] # y[Len(y)] THEN x[Len(x)] < y[Len(y)]
    ELSE BigLess(SubSeq(x, 1, Len(x) - 1), SubSeq(y, 1, Len(y) - 1))

BigOdd(x) == x # <<>> /\ Head(x) % 2 = 1

RECURSIVE BigSucc(_)
BigSucc(x) ==
    IF x = <<>> THEN <<1>>
    ELSE IF Head(x) < 999 THEN <<Head(x) + 1>> \o Tail(x)
    ELSE <<0>> \o BigSucc(Tail(x))

RECURSIVE BigAddCarry(_, _, _)
BigAddCarry(x, y, carry) ==
    IF x = <<>> /\ y = <<>> THEN Big(carry)
    ELSE LET t == (IF x = <<>> THEN 0 ELSE Head(x)) + (IF y = <<>> THEN 0 ELSE Head(y)) + carry
         IN  <<t % 1000>> \o BigAddCarry(IF x = <<>> THEN x ELSE Tail(x),
                                         IF y = <<>> THEN y ELSE Tail(y), t \div 1000)

RECURSIVE BigMulBig(_, _)
BigMulBig(x, y) ==
    IF x = <<>> \/ y = <<>> THEN <<>>
    ELSE BigAddCarry(BigMulSmall(x, Head(y)),
                     LET r == BigMulBig(x, Tail(y)) IN IF r = <<>> THEN r ELSE <<0>> \o r, 0)

RECURSIVE BigTrim(_)
BigTrim(x) ==
    IF x = <<>> \/ x[Len(x)] # 0 THEN x ELSE BigTrim(SubSeq(x, 1, Len(x) - 1))

RECURSIVE BigSubBorrow(_, _, _)
BigSubBorrow(x, y, borrow) ==
    IF x = <<>> THEN <<>>
    ELSE LET t == Head(x) - (IF y = <<>> THEN 0 ELSE Head(y)) - borrow
         IN  <<IF t < 0 THEN t + 1000 ELSE t>>
                 \o BigSubBorrow(Tail(x), IF y = <<>> THEN y ELSE Tail(y), IF t < 0 THEN 1 ELSE 0)

\* x - y for x >= y
BigSub(x, y) == BigTrim(BigSubBorrow(x, y, 0))

\* the natural written as groups of three decimal digits, most significant first
Groups(g) == BigTrim([i \in 1..Len(g) |-> g[Len(g) + 1 - i]])

\* the natural a string of decimal digits denotes
RECURSIVE BigFromDigits(_)
BigFromDigits(s) ==
    IF s = <<>> THEN <<>> ELSE BigAddCarry(BigMulSmall(BigFromDigits(SubSeq(s, 1, Len(s) - 1)), 10), <<>>, DigitValue(s[Len(s)]))

\* the decimal digits of a natural
RECURSIVE BigDigits(_)
BigDigits(x) ==
    IF x = <<>> THEN <<"0">>
    ELSE IF Len(x) = 1 THEN NatDigits(x[1])
    ELSE BigDigits(Tail(x)) \o PadLeft(NatDigits(Head(x)), 3)

(***************************************************************************)
(* float(s) for the decimal literals the tools print: [-]digits[.digits]   *)
(* with at most six decimals.  ok = FALSE stands for ValueError.           *)
(***************************************************************************)
Unsigned(s) == IF s # <<>> /\ Head(s) = "-" THEN Tail(s) ELSE s

DotAt(s) == IF \E i \in 1..Len(s) : s[i] = "."
            THEN CHOOSE i \in 1..Len(s) : s[i] = "." /\ \A j \in 1..(i - 1) : s[j] # "."
            ELSE Len(s) + 1

IntPart(s) == SubSeq(Unsigned(s), 1, DotAt(Unsigned(s)) - 1)

FracPart(s) == SubSeq(Unsigned(s), DotAt(Unsigned(s)) + 1, Len(Unsigned(s)))

RECURSIVE PadRight(_, _)
PadRight(s, width) == IF Len(s) >= width THEN s ELSE PadRight(s \o <<"0">>, width)

ParseFloat(s) ==
    IF /\ IntPart(s) \o FracPart(s) # <<>>
       /\ \A i \in 1..Len(IntPart(s)) : IsDigit(IntPart(s)[i])
       /\ \A i \in 1..Len(FracPart(s)) : IsDigit(FracPart(s)[i])
       /\ Len(FracPart(s)) <= 6
    THEN [ok |-> TRUE,
          neg |-> (s # <<>> /\ Head(s) = "-"),
          us |-> BigFromDigits(IntPart(s) \o PadRight(FracPart(s), 6))]
    ELSE [ok |-> FALSE, neg |-> FALSE, us |-> <<>>]

(***************************************************************************)
(* Python floats (IEEE binary64), for magnitudes that are zero or between  *)
(* 10^-6 and 2^53 (a duration in seconds printed with six decimals).  A    *)
(* float is a sign and a magnitude m * 2^e with 2^52 <= m < 2^53, or m = 0 *)
(* (signed zero); every operation returns the float nearest to the exact   *)
(* result, an exact half going to the even m.                              *)
(***************************************************************************)
RECURSIVE Pow2(_)
Pow2(n) == IF n = 0 THEN <<1>> ELSE BigMulSmall(Pow2(n - 1), 2)

\* 2^52 and 2^53
MantissaMin == <<496, 370, 627, 599, 503, 4>>

MantissaEnd == <<992, 740, 254, 199, 7, 9>>

\* floor(n / 2^k) and whether anything was cut off
RECURSIVE ShiftRight(_, _, _)
ShiftRight(n, k, sticky) ==
    IF k = 0 THEN [quot |-> n, sticky |-> sticky]
    ELSE IF k >= 16
    THEN LET q == BigDivSmall(n, 65536)
         IN  ShiftRight(q.quot, k - 16, sticky \/ q.rem # 0)
    ELSE LET q == BigDivSmall(n, 2)
         IN  ShiftRight(q.quot, k - 1, sticky \/ q.rem # 0)

\* n * 2^k
RECURSIVE ShiftLeft(_, _)
ShiftLeft(n, k) ==
    IF k = 0 THEN n
    ELSE IF k >= 16 THEN ShiftLeft(BigMulSmall(n, 65536), k - 16)
    ELSE ShiftLeft(BigMulSmall(n, 2), k - 1)

\* the number of bits n has beyond 53
RECURSIVE ExcessBits(_)
ExcessBits(n) ==
    IF BigLess(n, MantissaEnd) THEN 0
    ELSE IF ~BigLess(n, BigMulSmall(MantissaEnd, 65536)) THEN 16 + ExcessBits(BigDivSmall(n, 65536).quot)
    ELSE 1 + ExcessBits(BigDivSmall(n, 2).quot)

\* the float nearest to n * 2^e, for a natural n >= 2^53
RoundLong(neg, n, e) ==
    LET k  == ExcessBits(n)
        y  == ShiftRight(n, k - 1, FALSE)
        q  == BigDivSmall(y.quot, 2)
        up == q.rem = 1 /\ (y.sticky \/ BigOdd(q.quot))
        m  == IF up THEN BigSucc(q.quot) ELSE q.quot
    IN  IF m = MantissaEnd THEN [neg |-> neg, m |-> MantissaMin, e |-> e + k + 1]
        ELSE [neg |-> neg, m |-> m, e |-> e + k]

\* the float nearest to (n / d) * 2^e, for a natural n and a small positive d
RECURSIVE RoundToFloat(_, _, _, _)
RoundToFloat(neg, n, d, e) ==
    IF n = <<>> THEN [neg |-> neg, m |-> <<>>, e |-> 0]
    ELSE IF BigLess(BigMulSmall(n, 65536), BigMulSmall(MantissaEnd, d))
    THEN RoundToFloat(neg, BigMulSmall(n, 65536), d, e - 16)
    ELSE IF BigLess(n, BigMulSmall(MantissaMin, d)) THEN RoundToFloat(neg, BigMulSmall(n, 2), d, e - 1)
    ELSE IF ~BigLess(n, BigMulSmall(MantissaEnd, d))
    THEN (IF d = 1 THEN RoundLong(neg, n, e) ELSE RoundToFloat(neg, n, 2 * d, e + 1))
    ELSE LET q  == BigDivSmall(n, d)
             up == 2 * q.rem > d \/ (2 * q.rem = d /\ BigOdd(q.quot))
             m  == IF up THEN BigSucc(q.quot) ELSE q.quot
         IN  IF m = MantissaEnd THEN [neg |-> neg, m |-> MantissaMin, e |-> e + 1]
             ELSE [neg |-> neg, m |-> m, e |-> e]

\* float(s) of a text ParseFloat accepts
FloatOf(s) == RoundToFloat(ParseFloat(s).neg, ParseFloat(s).us, 1000000, 0)

\* x / k for a float x and an int k # 0
TrueDiv(x, k) == RoundToFloat(x.neg # (k < 0), x.m, Abs(k), x.e)

\* i * x for an int i and a float x
Mul(i, x) == RoundToFloat(x.neg # (i < 0), BigMulSmall(x.m, Abs(i)), 1, x.e)

\* x + y
FloatAdd(x, y) ==
    IF x.m = <<>> THEN (IF y.m = <<>> THEN [neg |-> x.neg /\ y.neg, m |-> <<>>, e |-> 0] ELSE y)
    ELSE IF y.m = <<>> THEN x
    ELSE IF x.e - y.e >= 55 THEN x
    ELSE IF y.e - x.e >= 55 THEN y
    ELSE LET e0 == IF x.e < y.e THEN x.e ELSE y.e
             a  == ShiftLeft(x.m, x.e - e0)
             b  == ShiftLeft(y.m, y.e - e0)
         IN  IF x.neg # y.neg /\ a = b THEN [neg |-> FALSE, m |-> <<>>, e |-> 0]
             ELSE RoundToFloat(IF x.neg # y.neg /\ BigLess(a, b) THEN y.neg ELSE x.neg,
                               IF x.neg = y.neg THEN BigAddCarry(a, b, 0)
                               ELSE IF BigLess(a, b) THEN BigSub(b, a) ELSE BigSub(a, b),
                               1, e0)

\* abs(x)
FloatAbs(x) == [neg |-> FALSE, m |-> x.m, e |-> x.e]

\* float(n) for an int n
FloatOfInt(n) == RoundToFloat(n < 0, Big(Abs(n)), 1, 0)

\* x < y for floats that are not negative
MagLess(x, y) ==
    IF y.m = <<>> THEN FALSE
    ELSE IF x.m = <<>> THEN TRUE
    ELSE x.e < y.e \/ (x.e = y.e /\ BigLess(x.m, y.m))

\* |x| * 10^4 rounded to an integer, an exact half going to the even neighbour
Units4(x) ==
    IF x.e >= 0 THEN BigMulBig(BigMulSmall(x.m, 10000), Pow2(x.e))
    ELSE LET y == ShiftRight(BigMulSmall(x.m, 10000), (0 - x.e) - 1, FALSE)
             q == BigDivSmall(y.quot, 2)
         IN  IF q.rem = 1 /\ (y.sticky \/ BigOdd(q.quot)) THEN BigSucc(q.quot) ELSE q.quot

\* f"{x:.4f}": the sign is printed whenever the float is negative, -0.0 included
FormatFixed4(x) ==
    LET digits == PadLeft(BigDigits(Units4(x)), 5)
    IN  (IF x.neg THEN <<"-">> ELSE <<>>)
            \o SubSeq(digits, 1, Len(digits) - 4) \o <<".">>
            \o SubSeq(digits, Len(digits) - 3, Len(digits))

\* the time a timestamp text denotes is zero
IsZeroTime(ts) == ParseFloat(ts).ok /\ ParseFloat(ts).us = <<>>

(***************************************************************************)
(* numpy's global generator (legacy RandomState, MT19937).  A state is the *)
(* seed it was last seeded with and the number of 32-bit outputs drawn     *)
(* since; MT19937Low16 lists the low 16 bits of the first outputs of the   *)
(* seeds the model uses (shuffle masks every output down to a few bits).   *)
(***************************************************************************)
MT19937Low16(seed) ==
    CASE seed = 42 ->
    <<56422, 15795, 860, 38158, 62570, 54343, 44732, 11284, 54886, 6265, 16850, 62678,
      37194, 21962, 47191, 60788, 44131, 60263, 16023, 41090, 1685, 64820, 769, 59735,
      62955, 64925, 56101, 2433, 5311, 37819, 39188, 17568, 53707, 19769, 28693, 6396,
      62187, 27480, 65072, 41434, 25658, 18942, 57001, 18431, 64987, 2747, 58319, 59150>>
      [] seed = 0 ->
    <<2732, 43567, 42613, 52416, 45891, 21243, 30403, 32103, 41993, 57043, 20757, 55026,
      46884, 14935, 15430, 48600, 39512, 52620, 14650, 17089, 32230, 18983, 43095, 51374,
      24152, 35665, 59045, 16921, 27469, 38984, 6921, 38804, 2163, 5072, 37619, 7877,
      18430, 1871, 7599, 2496, 47954, 24675, 42968, 31921, 33523, 797, 49811, 3219>>
      [] seed = 1 ->
    <<62501, 33003, 12172, 5192, 32511, 50057, 43723, 7813, 52047, 21440, 32912, 20609,
      49100, 7751, 43757, 31228, 36230, 32025, 58546, 54548, 21758, 45413, 35730, 51668,
      64395, 8444, 19946, 37532, 57245, 22926, 49714, 27204, 31959, 24535, 19433, 17137,
      26103, 44510, 51040, 33878, 39053, 55273, 64905, 33799, 37183, 52029, 3606, 42297>>

Seeds == {0, 1, 42}

RngStates == [seed : Seeds, pos : 0..MaxAmbientDraws]

\* np.random.seed(s)
Seeded(s) == [seed |-> s, pos |-> 0]

\* one 32-bit output, reduced to its low 16 bits
NextUInt(g) == [value |-> MT19937Low16(g.seed)[g.pos + 1],
                rng |-> [seed |-> g.seed, pos |-> g.pos + 1]]

\* smallest 2^b - 1 that is >= max
RECURSIVE BitMask(_, _)
BitMask(max, m) == IF m >= max THEN m ELSE BitMask(max, 2 * m + 1)

\* random_interval: masked rejection sampling of a value in 0..max
RECURSIVE RandomInterval(_, _)
RandomInterval(g, max) ==
    IF max = 0 THEN [value |-> 0, rng |-> g]
    ELSE LET d == NextUInt(g)
             v == d.value % (BitMask(max, 0) + 1)
         IN  IF v <= max THEN [value |-> v, rng |-> d.rng]
             ELSE RandomInterval(d.rng, max)

Swap(x, a, b) == [x EXCEPT ![a] = x[b], ![b] = x[a]]

\* np.random.shuffle on a list: for i in reversed(range(1, n)): j = interval(i); swap
RECURSIVE ShuffleFrom(_, _, _)
ShuffleFrom(g, x, i) ==
    IF i < 1 THEN [list |-> x, rng |-> g]
    ELSE LET d == RandomInterval(g, i)
         IN  ShuffleFrom(d.rng, Swap(x, i + 1, d.value + 1), i - 1)

Shuffle(g, x) == ShuffleFrom(g, x, Len(x) - 1)

(***************************************************************************)
(* extract_keyframes                                                       *)
(***************************************************************************)
\* the pkt_dts_time values kept by the list comprehension
RECURSIVE KeptLines(_)
KeptLines(lines) ==
    IF lines = <<>> THEN <<>>
    ELSE (IF ContainsNA(Head(lines)) THEN <<>> ELSE <<Head(lines)>>) \o KeptLines(Tail(lines))

Range(s) == {s[i] : i \in 1..Len(s)}

\* sorted(set(...)) on strings
RECURSIVE SortedSet(_)
SortedSet(S) ==
    IF S = {} THEN <<>>
    ELSE LET m == CHOOSE x \in S : \A y \in S \ {x} : StrLess(x, y)
         IN  <<m>> \o SortedSet(S \ {m})

\* list[:k]
SliceTo(x, k) ==
    IF k >= 0 THEN SubSeq(x, 1, IF k < Len(x) THEN k ELSE Len(x))
    ELSE SubSeq(x, 1, Len(x) + k)

\* variant: the shuffle draws from whatever state the global generator is in
ShuffleSeedAmbient(g) == g

\* the rng the shuffle draws from: np.random.seed(42) precedes it
ShuffleSeed(g) == Seeded(42)

\* the keyframe branch: None when it raises into the fallback
KeyframeBranch(v, k, g) ==
    IF ~v.probe_ok THEN [taken |-> FALSE, list |-> <<>>, rng |-> g]
    ELSE LET sorted == SortedSet(Range(KeptLines(v.dts)))
         IN  IF sorted = <<>> THEN [taken |-> FALSE, list |-> <<>>, rng |-> g]
             ELSE LET s == Shuffle(ShuffleSeed(g), sorted)
                  IN  [taken |-> TRUE, list |-> SliceTo(s.list, k), rng |-> s.rng]

\* the fallback branch: a grid of max_frames points over the duration
UniformGrid(duration, k) ==
    LET interval == TrueDiv(duration, k)
    IN  [i \in 1..(IF k > 0 THEN k ELSE 0) |-> FormatFixed4(Mul(i, interval))]

FallbackBranch(v, k) ==
    IF ~ParseFloat(v.duration).ok
    THEN [error |-> "ValueError: could not convert string to float", list |-> <<>>]
    ELSE IF k = 0 THEN [error |-> "ZeroDivisionError", list |-> <<>>]
    ELSE [error |-> "", list |-> UniformGrid(FloatOf(v.duration), k)]

extract_keyframes(v, k, g) ==
    LET kb == KeyframeBranch(v, k, g)
    IN  IF kb.taken THEN [error |-> "", list |-> kb.list, rng |-> kb.rng]
        ELSE [error |-> FallbackBranch(v, k).error,
              list |-> FallbackBranch(v, k).list, rng |-> g]

(***************************************************************************)
(* The inputs the model draws from.                                        *)
(***************************************************************************)
\* pkt_dts_time values a keyframe probe may print (10.0 sorts before 2.0 as text)
ProbeValues == {Micros(0), Micros(2000000), Micros(10000000), NA}

RECURSIVE SeqsUpTo(_, _)
SeqsUpTo(S, n) ==
    IF n = 0 THEN {<<>>}
    ELSE SeqsUpTo(S, n - 1) \cup {Append(s, x) : s \in {t \in SeqsUpTo(S, n - 1) : Len(t) = n - 1}, x \in S}

ProbeOutputs == SeqsUpTo(ProbeValues, MaxProbeLines)

\* what the duration probe may print: nothing, N/A, or a duration
DurationOutputs ==
    {<<>>, NA, Micros(0), Micros(30), Micros(50), Micros(120), Micros(2000000), Micros(-1000000)}

\* videos whose keyframe probe yields timestamps (their duration is never read)
KeyframeVideos ==
    {[probe_ok |-> TRUE, dts |-> l, duration |-> Micros(2000000)] :
        l \in {p \in ProbeOutputs : KeptLines(p) # <<>>}}

\* videos whose keyframe probe fails or yields no timestamp
GridVideos ==
    {[probe_ok |-> TRUE, dts |-> l, duration |-> d] :
        l \in {p \in ProbeOutputs : KeptLines(p) = <<>>}, d \in DurationOutputs}
    \cup {[probe_ok |-> FALSE, dts |-> <<>>, duration |-> d] : d \in DurationOutputs}

Videos == KeyframeVideos \cup GridVideos

(***************************************************************************)
(* Frames: rows of pixels of channel values, as imageio.imread returns     *)
(* them (height x width x channels, 0..255).                               *)
(***************************************************************************)
Gray(rows) == [r \in 1..Len(rows) |-> [c \in 1..Len(rows[r]) |-> <<rows[r][c], rows[r][c], rows[r][c]>>]]

FrameRamp ==
    Gray(<<<<0, 40, 80, 120, 160>>, <<0, 40, 80, 120, 160>>,
           <<0, 40, 80, 120, 160>>, <<0, 40, 80, 120, 160>>>>)

FrameRampRev ==
    Gray(<<<<160, 120, 80, 40, 0>>, <<160, 120, 80, 40, 0>>,
           <<160, 120, 80, 40, 0>>, <<160, 120, 80, 40, 0>>>>)

\* black, with a coloured block in the top right corner
FrameLogo ==
    LET o == <<0, 0, 0>>
        b == <<90, 60, 120>>
    IN  <<<<o, o, o, b, b>>, <<o, o, o, b, b>>, <<o, o, o, o, o>>, <<o, o, o, o, o>>>>

FrameSmall == Gray(<<<<0, 0>>, <<0, 0>>>>)

Frames == {FrameRamp, FrameRampRev, FrameLogo, FrameSmall}

NoFile == <<>>

\* what ffmpeg leaves at output_<counter>.png: a frame, or nothing when the decode fails
DecodeOutcomes == Frames \cup {NoFile}

Shape(f) == <<Len(f), Len(f[1]), Len(f[1][1])>>

(***************************************************************************)
(* extract_watermark_mask                                                  *)
(***************************************************************************)
RECURSIVE SumTo(_, _)
SumTo(f, n) == IF n = 0 THEN 0 ELSE SumTo(f, n - 1) + f[n]

\* variant: loading stops at the first missing file
RECURSIVE LoadFramesStop(_)
LoadFramesStop(outputs) ==
    IF outputs = <<>> \/ Head(outputs) = NoFile THEN <<>>
    ELSE <<Head(outputs)>> \o LoadFramesStop(Tail(outputs))

\* the files matched by output_*.png, in name order (counter order below ten files)
RECURSIVE LoadFrames(_)
LoadFrames(outputs) ==
    IF outputs = <<>> THEN <<>>
    ELSE (IF Head(outputs) = NoFile THEN <<>> ELSE <<Head(outputs)>>) \o LoadFrames(Tail(outputs))

\* np.array(buff) needs one shape
SameShape(buff) == \A i \in 1..Len(buff) : Shape(buff[i]) = Shape(buff[1])

\* twice np.gradient along an axis of n samples: one-sided at the ends, central inside
Gradient2(line, i) ==
    LET n == Len(line)
    IN  IF i = 1 THEN 2 * (line[2] - line[1])
        ELSE IF i = n THEN 2 * (line[n] - line[n - 1])
        ELSE line[i + 1] - line[i - 1]

\* twice the gradient along axis 1 (rows) resp. axis 2 (columns), summed over the channels
ChannelSumDx2(f, r, c) ==
    SumTo([ch \in 1..Len(f[r][c]) |-> Gradient2([rr \in 1..Len(f) |-> f[rr][c][ch]], r)], Len(f[r][c]))

ChannelSumDy2(f, r, c) ==
    SumTo([ch \in 1..Len(f[r][c]) |-> Gradient2([cc \in 1..Len(f[r]) |-> f[r][cc][ch]], c)], Len(f[r][c]))

\* .mean(axis=3) of one pixel of one frame: the channel gradients (multiples of 1/2)
\* add up exactly, the division by the number of channels is rounded
ChannelMean(sum2, channels) == RoundToFloat(sum2 < 0, Big(Abs(sum2)), 2 * channels, 0)

\* np.add.reduce over axis 0: the frames are added one after the other
RECURSIVE FloatSumTo(_, _)
FloatSumTo(f, n) == IF n = 1 THEN f[1] ELSE FloatAdd(FloatSumTo(f, n - 1), f[n])

\* mean_dx = np.abs(np.mean(dx, axis=0))
MeanDx(buff, r, c) ==
    FloatAbs(TrueDiv(FloatSumTo([n \in 1..Len(buff) |->
                 ChannelMean(ChannelSumDx2(buff[n], r, c), Len(buff[n][r][c]))], Len(buff)), Len(buff)))

\* variant: mean_dy = np.mean(np.abs(dy), axis=0), absolute value first
MeanDyAbsFirst(buff, r, c) ==
    TrueDiv(FloatSumTo([n \in 1..Len(buff) |->
                 FloatAbs(ChannelMean(ChannelSumDy2(buff[n], r, c), Len(buff[n][r][c])))], Len(buff)), Len(buff))

\* mean_dy = np.abs(np.mean(dy, axis=0))
MeanDy(buff, r, c) ==
    FloatAbs(TrueDiv(FloatSumTo([n \in 1..Len(buff) |->
                 ChannelMean(ChannelSumDy2(buff[n], r, c), Len(buff[n][r][c]))], Len(buff)), Len(buff)))

\* mean_dx and mean_dy of every pixel
Means(buff) ==
    [r \in 1..Len(buff[1]) |-> [c \in 1..Len(buff[1][1]) |->
        [dx |-> MeanDx(buff, r, c), dy |-> MeanDy(buff, r, c)]]]

\* the frame lists extract_watermark_mask can load in the model: their means are computed once
MaxBuff == IF MaxK > MaxProbeLines THEN MaxK ELSE MaxProbeLines

Buffs == {b \in SeqsUpTo(Frames, MaxBuff) : Len(b) >= 2 /\ SameShape(b)}

MeansTable == [b \in Buffs |-> Means(b)]

MeansOf(buff) == IF buff \in Buffs THEN MeansTable[buff] ELSE Means(buff)

threshold == 10

\* mean > threshold
\* the threshold as the float the comparison converts it to
ThresholdFloat == FloatOfInt(threshold)

Exceeds(mean) == MagLess(ThresholdFloat, mean)

\* (mean_dx > threshold) | (mean_dy > threshold), as float 0/1
AboveThreshold(means) ==
    [r \in 1..Len(means) |-> [c \in 1..Len(means[1]) |->
        IF Exceeds(means[r][c].dx) \/ Exceeds(means[r][c].dy) THEN 1 ELSE 0]]

\* the salient fields of the model's frame lists, computed once
SalientTable == [b \in Buffs |-> AboveThreshold(MeansTable[b])]

\* the salient field of a list of frames
Salient(buff) == IF buff \in Buffs THEN SalientTable[buff] ELSE AboveThreshold(Means(buff))

\* gaussian_filter(sigma=3): radius int(4 * 3 + 0.5) = 12, weights exp(-k^2 / 18) / sum
\* for k = 0..12 (the kernel is symmetric), mode "reflect".  The weights are given to
\* 18 decimals, in units of 10^-18: finer than the rounding of the double arithmetic.
sigma == 3

GaussRadius == (8 * sigma + 1) \div 2

GaussKernel ==
    << Groups(<<132, 984, 538, 550, 783, 722>>),
       Groups(<<125, 797, 983, 460, 310, 647>>),
       Groups(<<106, 485, 694, 27, 244, 697>>),
       Groups(<<80, 659, 199, 898, 786, 983>>),
       Groups(<<54, 671, 578, 245, 654, 64>>),
       Groups(<<33, 159, 988, 420, 867, 417>>),
       Groups(<<17, 997, 500, 190, 860, 554>>),
       Groups(<<8, 740, 878, 47, 691, 289>>),
       Groups(<<3, 798, 769, 940, 305, 482>>),
       Groups(<<1, 477, 324, 778, 400, 407>>),
       Groups(<<0, 514, 107, 605, 821, 973>>),
       Groups(<<0, 160, 94, 765, 891, 977>>),
       Groups(<<0, 44, 611, 342, 772, 649>>) >>

\* index (0-based) of the sample read at position i of a line of n: d c b a | a b c d | d c b a
Reflect(i, n) ==
    LET m == i % (2 * n)
    IN  IF m < n THEN m ELSE 2 * n - 1 - m

FieldValues(x) == {x[r][c] : r \in 1..Len(x), c \in 1..Len(x[1])}

Max(S) == CHOOSE m \in S : \A y \in S : m >= y

BigMin(S) == CHOOSE m \in S : \A y \in S : ~BigLess(y, m)

BigMax(S) == CHOOSE m \in S : \A y \in S : ~BigLess(m, y)

\* the kernel positions -12..12
Taps == (0 - GaussRadius)..GaussRadius

RECURSIVE BigSumOver(_, _)
BigSumOver(S, f) ==
    IF S = {} THEN <<>>
    ELSE LET x == CHOOSE y \in S : TRUE IN BigAddCarry(f[x], BigSumOver(S \ {x}, f), 0)

RECURSIVE BigSumTo(_, _)
BigSumTo(f, n) == IF n = 0 THEN <<>> ELSE BigAddCarry(BigSumTo(f, n - 1), f[n], 0)

MaxSide == Max({Len(f) : f \in Frames} \cup {Len(f[1]) : f \in Frames})

\* for a line of n samples, the total weight output i gives to sample j: the taps k
\* with Reflect(i + k) = j, added up
FoldedWeights(n) ==
    [i \in 1..n |-> [j \in 1..n |->
        BigSumOver({k \in Taps : Reflect(i - 1 + k, n) + 1 = j},
                   [k \in Taps |-> GaussKernel[Abs(k) + 1]])]]

\* the folded weights of the line lengths the model's frames have, computed once
FoldedKernel == [n \in 1..MaxSide |-> FoldedWeights(n)]

\* correlate1d at output i: the weighted sum of the samples
Correlate1D(line, i) ==
    LET weights == IF Len(line) <= MaxSide THEN FoldedKernel[Len(line)] ELSE FoldedWeights(Len(line))
    IN  BigSumTo([j \in 1..Len(line) |-> BigMulBig(weights[i][j], line[j])], Len(line))

GaussianFilter1D(line) == [i \in 1..Len(line) |-> Correlate1D(line, i)]

\* axis 0 first (on the 0/1 field, giving units of 10^-18), then axis 1 (units of 10^-36)
GaussianFilter(x) ==
    LET h == Len(x)
        w == Len(x[1])
        cols == [c \in 1..w |-> GaussianFilter1D([r \in 1..h |-> Big(x[r][c])])]
        pass0 == [r \in 1..h |-> [c \in 1..w |-> cols[c][r]]]
    IN  [r \in 1..h |-> GaussianFilter1D(pass0[r])]

\* variant: a uniform field is mapped to all ones
normalize_ones(x) ==
    LET lo == BigMin(FieldValues(x))
        hi == BigMax(FieldValues(x))
    IN  IF hi = lo
        THEN [r \in 1..Len(x) |-> [c \in 1..Len(x[1]) |-> [num |-> Big(1), den |-> Big(1)]]]
        ELSE [r \in 1..Len(x) |-> [c \in 1..Len(x[1]) |->
                 [num |-> BigSub(x[r][c], lo), den |-> BigSub(hi, lo)]]]

\* normalize: a field of fractions num/den in [0, 1]
normalize(x) ==
    LET lo == BigMin(FieldValues(x))
        hi == BigMax(FieldValues(x))
    IN  IF hi = lo
        THEN [r \in 1..Len(x) |-> [c \in 1..Len(x[1]) |-> [num |-> Big(0), den |-> Big(1)]]]
        ELSE [r \in 1..Len(x) |-> [c \in 1..Len(x[1]) |->
                 [num |-> BigSub(x[r][c], lo), den |-> BigSub(hi, lo)]]]

\* variant: (salient > 0.2).astype(np.uint8), the factor 255 forgotten
BinarizeBool(v) == IF BigLess(v.den, BigMulSmall(v.num, 5)) THEN 1 ELSE 0

\* ((salient > 0.2) * 255).astype(np.uint8)
Binarize(v) == IF BigLess(v.den, BigMulSmall(v.num, 5)) THEN 255 ELSE 0

\* lines 112-113 on a salient field: the smoothed field, the normalized field, the mask
Stages(salient) ==
    LET smoothed   == GaussianFilter(salient)
        normalized == normalize(smoothed)
    IN  [smoothed |-> smoothed, normalized |-> normalized,
         mask |-> [r \in 1..Len(salient) |-> [c \in 1..Len(salient[1]) |-> Binarize(normalized[r][c])]]]

\* the salient fields of the model's frame lists: their stages are computed once
SalientFields == {Salient(b) : b \in Buffs}

StagesTable == [s \in SalientFields |-> Stages(s)]

StagesOf(salient) == IF salient \in SalientFields THEN StagesTable[salient] ELSE Stages(salient)

MaskOf(buff) == StagesOf(Salient(buff)).mask

\* variant: one frame is enough
TooFewFramesOne(buff) == Len(buff) < 1

\* if len(buff) < 2: raise ValueError
TooFewFrames(buff) == Len(buff) < 2

\* variant: frames whose shape differs from the first frame's are dropped
extract_watermark_mask_skip(outputs) ==
    LET all == LoadFrames(outputs)
        SameAsFirst(f) == Shape(f) = Shape(all[1])
        buff == SelectSeq(all, SameAsFirst)
    IN  IF TooFewFrames(buff)
        THEN [error |-> "ValueError: at least 2 frames needed", mask |-> NoFile]
        ELSE [error |-> "", mask |-> MaskOf(buff)]

\* the outcome of extract_watermark_mask on the files of the temporary directory
extract_watermark_mask(outputs) ==
    LET buff == LoadFrames(outputs)
    IN  IF TooFewFrames(buff)
        THEN [error |-> "ValueError: at least 2 frames needed", mask |-> NoFile]
        ELSE IF ~SameShape(buff)
        THEN [error |-> "ValueError: inhomogeneous shape", mask |-> NoFile]
        ELSE [error |-> "", mask |-> MaskOf(buff)]

(***************************************************************************)
(* main                                                                    *)
(***************************************************************************)
NoTmpdir == [state |-> "absent", outputs |-> <<>>, mask |-> NoFile]

\* shutil.rmtree(tmpdir, ignore_errors=True)
Removed == [state |-> "removed", outputs |-> <<>>, mask |-> NoFile]

\* a fresh process: the global generator is seeded from the system's entropy
Init ==
    /\ video \in Videos
    /\ max_frames \in -1..MaxK
    /\ rng \in {Seeded(s) : s \in Seeds}
    /\ pc = "main"
    /\ keyframes_time = <<>>
    /\ ncalls = 0
    /\ next_ts = 1
    /\ counter = 0
    /\ tmpdir = NoTmpdir
    /\ calls = <<>>
    /\ error = ""
    /\ exit_code = -1

\* variant: the exit leaves the temporary directory behind (no finally clause)
ExitNoCleanup(code, exc) ==
    /\ pc' = "exited"
    /\ exit_code' = code
    /\ error' = exc
    /\ UNCHANGED tmpdir

\* leaving the try block with an exception or sys.exit: the finally clause removes tmpdir
Exit(code, exc) ==
    /\ pc' = "exited"
    /\ exit_code' = code
    /\ error' = exc
    /\ tmpdir' = Removed

\* main up to the creation of the temporary directory
StartMain ==
    /\ pc = "main"
    /\ \E input_exists \in BOOLEAN :
        IF input_exists
        THEN /\ pc' = "extract_keyframes"
             /\ tmpdir' = [state |-> "present", outputs |-> <<>>, mask |-> NoFile]
             /\ UNCHANGED <<error, exit_code>>
        ELSE /\ pc' = "exited"
             /\ exit_code' = 1
             /\ error' = "SystemExit"
             /\ UNCHANGED tmpdir
    /\ UNCHANGED <<video, max_frames, rng, keyframes_time, ncalls, next_ts, counter, calls>>

\* keyframes_time = extract_keyframes(str(input_path), args.keyframes)
ExtractKeyframes ==
    /\ pc = "extract_keyframes"
    /\ \E r \in {extract_keyframes(video, max_frames, rng)} :
           /\ rng' = r.rng
           /\ ncalls' = ncalls + 1
           /\ IF r.error # ""
              THEN /\ Exit(1, r.error)
                   /\ UNCHANGED keyframes_time
              ELSE /\ keyframes_time' = r.list
                   /\ pc' = "extract_frames"
                   /\ UNCHANGED <<tmpdir, error, exit_code>>
    /\ UNCHANGED <<video, max_frames, next_ts, counter, calls>>

\* one iteration of extract_frames' loop: ffmpeg writes output_<counter>.png or nothing
ExtractFrame ==
    /\ pc = "extract_frames"
    /\ next_ts <= Len(keyframes_time)
    /\ next_ts' = next_ts + 1
    /\ IF ~ParseFloat(keyframes_time[next_ts]).ok
       THEN UNCHANGED <<counter, tmpdir>>
       ELSE \E out \in DecodeOutcomes :
                /\ tmpdir' = [tmpdir EXCEPT !.outputs = Append(@, out)]
                /\ counter' = counter + 1
    /\ UNCHANGED <<video, max_frames, rng, pc, keyframes_time, ncalls, calls, error, exit_code>>

\* extract_frames returns counter; main exits when frame_count < 2
CheckFrameCount ==
    /\ pc = "extract_frames"
    /\ next_ts > Len(keyframes_time)
    /\ IF counter < 2
       THEN Exit(1, "SystemExit")
       ELSE /\ pc' = "extract_watermark_mask"
            /\ UNCHANGED <<tmpdir, error, exit_code>>
    /\ UNCHANGED <<video, max_frames, rng, keyframes_time, ncalls, next_ts, counter, calls>>

\* mask_path = extract_watermark_mask(tmpdir)
ExtractWatermarkMask ==
    /\ pc = "extract_watermark_mask"
    /\ \E m \in {extract_watermark_mask(tmpdir.outputs)} :
           IF m.error # ""
           THEN /\ Exit(1, m.error)
                /\ UNCHANGED calls
           ELSE /\ tmpdir' = [tmpdir EXCEPT !.mask = m.mask]
                /\ calls' = Append(calls, "imsave")
                /\ pc' = "remove_watermark"
                /\ UNCHANGED <<error, exit_code>>
    /\ UNCHANGED <<video, max_frames, rng, keyframes_time, ncalls, next_ts, counter>>

\* remove_watermark(str(input_path), mask_path, output_path): ffmpeg succeeds or not
RemoveWatermark ==
    /\ pc = "remove_watermark"
    /\ calls' = Append(calls, "remove_watermark")
    /\ \E ffmpeg_ok \in BOOLEAN :
        IF ffmpeg_ok THEN Exit(0, "") ELSE Exit(1, "CalledProcessError")
    /\ UNCHANGED <<video, max_frames, rng, keyframes_time, ncalls, next_ts, counter>>

Next ==
    \/ StartMain
    \/ ExtractKeyframes
    \/ ExtractFrame
    \/ CheckFrameCount
    \/ ExtractWatermarkMask
    \/ RemoveWatermark

Spec == Init /\ [][Next]_vars

(***************************************************************************)
(* Repeated timestamp selection on one video, with other users of the      *)
(* global generator in between.                                            *)
(***************************************************************************)
InitRepeat ==
    /\ video \in Videos
    /\ max_frames \in -1..MaxK
    /\ rng \in RngStates
    /\ pc = "repeat"
    /\ keyframes_time = <<>>
    /\ ncalls = 0
    /\ next_ts = 1
    /\ counter = 0
    /\ tmpdir = NoTmpdir
    /\ calls = <<>>
    /\ error = ""
    /\ exit_code = -1

CallExtractKeyframes ==
    /\ pc = "repeat"
    /\ ncalls < MaxCalls
    /\ \E r \in {extract_keyframes(video, max_frames, rng)} :
           /\ rng' = r.rng
           /\ keyframes_time' = r.list
           /\ error' = r.error
    /\ ncalls' = ncalls + 1
    /\ UNCHANGED <<video, max_frames, pc, next_ts, counter, tmpdir, calls, exit_code>>

\* any other code seeding or drawing from numpy's global generator
AmbientRandom ==
    /\ pc = "repeat"
    /\ \E g \in RngStates : rng' = g /\ g # rng
    /\ UNCHANGED <<video, max_frames, pc, keyframes_time, ncalls, next_ts, counter,
                   tmpdir, calls, error, exit_code>>

NextRepeat == CallExtractKeyframes \/ AmbientRandom

SpecRepeat == InitRepeat /\ [][NextRepeat]_vars

(***************************************************************************)
(* Properties.                                                             *)
(***************************************************************************)
IsFile(f) == f # NoFile

\* the frames ffmpeg decoded successfully, in timestamp order
Decoded == SelectSeq(tmpdir.outputs, IsFile)

Dims(f) == <<Len(f), Len(f[1])>>

EqualDims(frames) == \A i \in 1..Len(frames) : Shape(frames[i]) = Shape(frames[1])

LoopDone == pc = "extract_frames" /\ next_ts > Len(keyframes_time)

Pixels(x) == {<<r, c>> : r \in 1..Len(x), c \in 1..Len(x[1])}

AllZero(x) == \A p \in Pixels(x) : x[p[1]][p[2]] = 0

NoKeyframes(v) == ~v.probe_ok \/ KeptLines(v.dts) = <<>>

\* the text is a number above zero
PositiveTime(ts) == ParseFloat(ts).ok /\ ~ParseFloat(ts).neg /\ ParseFloat(ts).us # <<>>

NoDuplicates(x) == \A i, j \in 1..Len(x) : i # j => x[i] # x[j]

\* extract_keyframes was called and returned a list
SelectionReturned ==
    /\ ncalls >= 1
    /\ error \notin {"ValueError: could not convert string to float", "ZeroDivisionError"}

\* C1: once the sampling loop has ended with fewer than 2 decoded frames, the run
\* can only end with exit status 1: extract_watermark_mask raises, no mask is
\* saved and remove_watermark is not called.
InsufficientSamplesFatal ==
    [][ ((LoopDone \/ pc = "extract_watermark_mask") /\ Len(Decoded) < 2)
        => /\ pc' \in {"exited", "extract_watermark_mask"}
           /\ (pc = "extract_watermark_mask" => pc' = "exited")
           /\ (pc' = "exited" => exit_code' = 1 /\ error' # "")
           /\ calls' = <<>>
           /\ tmpdir'.mask = NoFile ]_vars

\* main's frame_count check passed (3 attempts) and extract_watermark_mask refused
InsufficientSamplesSeen ==
    /\ pc = "exited"
    /\ exit_code = 1
    /\ counter = 3
    /\ error = "ValueError: at least 2 frames needed"
    /\ calls = <<>>

\* C2: a failed decode does not end the run; with at least 2 decoded frames of
\* one shape the run reaches remove_watermark and the saved mask is the mask of
\* exactly the decoded frames.
DecodeFailureNotFatal ==
    [][ (pc \in {"extract_frames", "extract_watermark_mask"})
        => /\ (pc = "extract_frames" /\ ~LoopDone) => pc' = "extract_frames"
           /\ (Len(Decoded) >= 2 /\ EqualDims(Decoded) /\ LoopDone)
                 => (pc' = "extract_watermark_mask" /\ error' = "")
           /\ (Len(Decoded) >= 2 /\ EqualDims(Decoded) /\ pc = "extract_watermark_mask")
                 => /\ pc' = "remove_watermark"
                    /\ error' = ""
                    /\ tmpdir'.mask = MaskOf(Decoded) ]_vars

\* a mask was saved although one of three decodes failed
MaskDespiteFailure ==
    /\ pc = "remove_watermark"
    /\ Len(tmpdir.outputs) = 3
    /\ Len(Decoded) = 2
    /\ tmpdir.mask # NoFile

\* C3: without keyframes and with an unknown or non-positive duration,
\* extract_keyframes fails instead of returning timestamps.
DurationRequired ==
    ( /\ ncalls >= 1
      /\ NoKeyframes(video)
      /\ max_frames >= 1
      /\ ~PositiveTime(video.duration) )
    => (pc = "exited" /\ exit_code = 1 /\ error # "" /\ keyframes_time = <<>>)

\* C4: without keyframes, for a positive duration and max_frames >= 1, the
\* result has exactly max_frames timestamps and none of them is t = 0.
GridExcludesZero ==
    ( /\ ncalls >= 1
      /\ NoKeyframes(video)
      /\ max_frames >= 1
      /\ PositiveTime(video.duration) )
    => /\ SelectionReturned
       /\ Len(keyframes_time) = max_frames
       /\ \A i \in 1..Len(keyframes_time) : ~IsZeroTime(keyframes_time[i])

\* C5: on either path the returned list has no duplicates and at most
\* max_frames elements (stated for max_frames >= 1 and, on the fallback path,
\* a positive duration).
DeduplicatedAndCapped ==
    ( /\ SelectionReturned
      /\ max_frames >= 1
      /\ (NoKeyframes(video) => PositiveTime(video.duration)) )
    => (NoDuplicates(keyframes_time) /\ Len(keyframes_time) <= max_frames)

\* C6: every call of extract_keyframes after the first gives the outcome of the
\* call before it, whatever happened to the global generator in between.
SelectionDeterministic ==
    [][ (ncalls >= 1 /\ ncalls' = ncalls + 1)
        => (keyframes_time' = keyframes_time /\ error' = error) ]_vars

\* two calls returned a shuffled list of three and the generator was reseeded since
RepeatedSelection ==
    /\ pc = "repeat"
    /\ ncalls >= 2
    /\ ~NoKeyframes(video)
    /\ Len(keyframes_time) = 3
    /\ rng.seed # 42

\* C7: when a decoded frame's height or width differs from the first decoded
\* frame's, extract_watermark_mask raises: exit status 1, no mask saved.
DimensionMismatchFatal ==
    [][ ( /\ pc = "extract_watermark_mask"
          /\ \E i \in 1..Len(Decoded) : Dims(Decoded[i]) # Dims(Decoded[1]) )
        => /\ pc' = "exited"
           /\ exit_code' = 1
           /\ error' # ""
           /\ calls' = <<>>
           /\ tmpdir'.mask = NoFile ]_vars

DimensionMismatchSeen ==
    /\ pc = "exited"
    /\ exit_code = 1
    /\ error = "ValueError: inhomogeneous shape"
    /\ calls = <<>>

\* C8: every pixel of a saved mask is 0 or 255.
MaskIsBinary ==
    tmpdir.mask # NoFile
    => \A p \in Pixels(tmpdir.mask) : tmpdir.mask[p[1]][p[2]] \in {0, 255}

\* a saved mask with both values
MixedMaskSeen ==
    /\ tmpdir.mask # NoFile
    /\ \E p \in Pixels(tmpdir.mask) : tmpdir.mask[p[1]][p[2]] = 0
    /\ \E p \in Pixels(tmpdir.mask) : tmpdir.mask[p[1]][p[2]] = 255

\* the sum over the frames of the signed gradients (times 2, summed over channels)
SignedSumDx(buff, r, c) == SumTo([n \in 1..Len(buff) |-> ChannelSumDx2(buff[n], r, c)], Len(buff))

SignedSumDy(buff, r, c) == SumTo([n \in 1..Len(buff) |-> ChannelSumDy2(buff[n], r, c)], Len(buff))

\* the threshold in the units of the signed sums
Limit(buff) == threshold * 2 * Len(buff[1][1][1]) * Len(buff)

\* C9: for the frames a mask was computed from, the value compared with the
\* threshold is the absolute value of the mean of the signed gradients: it
\* exceeds 10 when the exact mean of the signed gradients does, it does not
\* when the exact mean is below 10 (the floating-point mean decides when the
\* exact mean is 10), a pixel is salient iff the value exceeds 10 in a
\* direction, and a pixel whose signed gradients sum to zero in a direction is
\* not salient in that direction.
AverageThenAbsolute ==
    (pc = "remove_watermark")
    => \A buff \in {Decoded} : \A sal \in {Salient(buff)} : \A lim \in {Limit(buff)} :
       \A means \in {MeansOf(buff)} :
        \A p \in Pixels(buff[1]) :
          \A sx \in {SignedSumDx(buff, p[1], p[2])} : \A sy \in {SignedSumDy(buff, p[1], p[2])} :
          \A overx \in {Exceeds(means[p[1]][p[2]].dx)} : \A overy \in {Exceeds(means[p[1]][p[2]].dy)} :
            /\ (Abs(sx) > lim => overx) /\ (Abs(sx) < lim => ~overx)
            /\ (Abs(sy) > lim => overy) /\ (Abs(sy) < lim => ~overy)
            /\ (sx = 0 => ~overx)
            /\ (sy = 0 => ~overy)
            /\ (sal[p[1]][p[2]] = 1 <=> (overx \/ overy))

\* a mask was saved from frames whose gradients at some pixel are each above the
\* threshold and cancel, and that pixel is not salient
CancellingGradients ==
    /\ pc = "remove_watermark"
    /\ Len(Decoded) >= 2
    /\ \A buff \in {Decoded} : \A sal \in {Salient(buff)} :
        \E p \in Pixels(buff[1]) :
            /\ SignedSumDy(buff, p[1], p[2]) = 0
            /\ \A n \in 1..Len(buff) :
                  Abs(ChannelSumDy2(buff[n], p[1], p[2])) > threshold * 2 * Len(buff[n][1][1])
            /\ sal[p[1]][p[2]] = 0

Uniform(x) == Cardinality(FieldValues(x)) = 1

\* C10: when the smoothed salience field is uniform, normalize gives the zero
\* field and extract_watermark_mask saves an all-zero mask and returns: the
\* run goes on to remove_watermark with no error.
UniformFieldIsSuccess ==
    [][ (pc = "extract_watermark_mask" /\ Len(Decoded) >= 2 /\ EqualDims(Decoded))
        => \A stages \in {StagesOf(Salient(Decoded))} :
            Uniform(stages.smoothed)
            => /\ \A p \in Pixels(stages.normalized) : stages.normalized[p[1]][p[2]].num = Big(0)
               /\ pc' = "remove_watermark"
               /\ error' = ""
               /\ exit_code' = -1
               /\ calls' = <<"imsave">>
               /\ tmpdir'.mask # NoFile
               /\ AllZero(tmpdir'.mask) ]_vars

\* an all-zero mask saved from frames in which every pixel is salient
UniformFieldSeen ==
    /\ pc = "remove_watermark"
    /\ \A sal \in {Salient(Decoded)} :
          /\ \A p \in Pixels(sal) : sal[p[1]][p[2]] = 1
          /\ Uniform(StagesOf(sal).smoothed)
    /\ AllZero(tmpdir.mask)

\* C11: every step that ends main while the temporary directory exists removes
\* it (normal completion, the frame_count exit, an exception of any step), the
\* directory is removed only by such a step, and the step that invokes
\* remove_watermark starts with the directory and its mask file in place.
TmpdirRemovedAtExit ==
    [][ /\ (tmpdir.state = "present" /\ pc' = "exited") => tmpdir' = Removed
        /\ (tmpdir'.state = "removed") => (pc' = "exited" /\ exit_code' \in {0, 1})
        /\ (tmpdir.state = "present" /\ pc' # "exited") => tmpdir'.state = "present"
        /\ (calls' = Append(calls, "remove_watermark"))
              => (tmpdir.state = "present" /\ tmpdir.mask # NoFile) ]_vars

\* normal completion: remove_watermark ran on the saved mask, then the directory went
CleanedAfterRemoval ==
    /\ pc = "exited"
    /\ exit_code = 0
    /\ calls = <<"imsave", "remove_watermark">>
    /\ tmpdir = Removed

====
